---------------------------- MODULE Spec2Model ----------------------------
(***************************************************************************)
(* A model of open-ce's build tree (src/open-ce/build_tree.py): the        *)
(* construction of the list of BuildCommands over all variants, the        *)
(* linking of their dependencies by package name, the cycle detection and  *)
(* the dependency-first iteration.                                         *)
(*                                                                         *)
(* Indices are the code's: build_commands is a Python list, so the unit    *)
(* with global index g is build_commands[g + 1] here.                      *)
(***************************************************************************)
EXTENDS Integers, Sequences, FiniteSets, TLC

VARIABLES
    possible_variants,  \* BuildTree._possible_variants
    variant_index,      \* how many variants the loop of __init__ has processed
    build_commands,     \* BuildTree.build_commands
    pc,                 \* where the BuildTree is in its life
    report,             \* what _detect_cycle raised: the cycle report of the OpenCEError
    is_seen,            \* the list is_seen of __iter__
    stack,              \* the active _traverse_deps_tree generators, outermost first
    yielded,            \* the global indices yielded so far by the iteration
    linker,             \* one call of _add_build_command_dependencies on its own
    finder,             \* one call of find_all_cycles on its own
    collector           \* one call of _create_all_recipes on its own

vars == <<possible_variants, variant_index, build_commands, pc, report,
          is_seen, stack, yielded, linker, finder, collector>>

tree_vars == <<possible_variants, variant_index, build_commands, pc, report,
               is_seen, stack, yielded>>

-----------------------------------------------------------------------------
(* Bounds *)

MaxBatch == 3        \* units rendered for one variant
MaxUnits == 4        \* units in the whole build tree
MaxMaxCycles == 2    \* largest max_cycles handed to _detect_cycle
MaxLinkBatch == 3    \* units in the batch of a lone linker call
MaxStartIndex == 2   \* largest start_index of a lone linker call
MaxNodes == 3        \* nodes of the adjacency list of a lone find_all_cycles call
MaxDegree == 2       \* entries in one list of that adjacency list
MaxDescriptors == 2  \* environment descriptors of a lone collector call
MaxDeclared == 2     \* package declarations in one descriptor
MaxHash == 3         \* hash values are 0..MaxHash

-----------------------------------------------------------------------------
(* Helpers *)

Range(s) == {s[k] : k \in 1..Len(s)}

Min(a, b) == IF a <= b THEN a ELSE b

\* All orders in which a Python `for x in S` may walk the set S.
Orderings(S) ==
    {s \in [1..Cardinality(S) -> S] : \A x \in S : \E k \in DOMAIN s : s[k] = x}

RECURSIVE Flatten(_)
Flatten(ss) == IF ss = <<>> THEN <<>> ELSE Head(ss) \o Flatten(Tail(ss))

\* filter(lambda x: pred, list) for pred "x # excluded"
RECURSIVE FilterNot(_, _)
FilterNot(s, excluded) ==
    IF s = <<>> THEN <<>>
    ELSE IF Head(s) # excluded
         THEN <<Head(s)>> \o FilterNot(Tail(s), excluded)
         ELSE FilterNot(Tail(s), excluded)

-----------------------------------------------------------------------------
(* Package names and dependency specifiers *)

Names == {"a", "b"}

\* A dependency specifier is the package name followed by its optional
\* version qualifier, the fields of the string: <<"a">>, <<"a", ">=1.2">>.

\* utils.remove_version: the bare package name of a specifier.
remove_version(dep) == dep[1]

\* utils.make_variants: the product of the three axes, python outermost.
make_variants(python_versions, build_types, mpi_types) ==
    LET nb == Len(build_types)
        nm == Len(mpi_types)
    IN  [k \in 1..(Len(python_versions) * nb * nm) |->
            [python     |-> python_versions[((k - 1) \div (nb * nm)) + 1],
             build_type |-> build_types[(((k - 1) \div nm) % nb) + 1],
             mpi_type   |-> mpi_types[((k - 1) % nm) + 1]]]

\* BuildCommand.__init__ as _create_recipes calls it: no dependencies linked yet.
BuildCommand(packages, variant, run, host, build, test) ==
    [packages                   |-> packages,
     variant                    |-> variant,
     run_dependencies           |-> run,
     host_dependencies          |-> host,
     build_dependencies         |-> build,
     test_dependencies          |-> test,
     build_command_dependencies |-> <<>>]

-----------------------------------------------------------------------------
(* _add_build_command_dependencies *)

\* A bug PackagesDict could have: a later producer of a name replaces the
\* earlier ones.
PackagesDict_LastProducerOnly(batch, start_index, n) ==
    LET produced == UNION {batch[k].packages : k \in 1..n}
    IN  [package \in produced |->
            LET last == CHOOSE k \in 1..n :
                           /\ package \in batch[k].packages
                           /\ \A j \in (k + 1)..n : package \notin batch[j].packages
            IN  <<start_index + (last - 1)>>]

\* The dict `packages` after the first loop has handled the first n units.
RECURSIVE PackagesDict(_, _, _)
PackagesDict(batch, start_index, n) ==
    IF n = 0 THEN <<>>
    ELSE LET prev  == PackagesDict(batch, start_index, n - 1)
             index == n - 1
             mine  == batch[n].packages
         IN  [package \in (DOMAIN prev) \cup mine |->
                 IF package \in mine
                 THEN <<start_index + index>> \o
                      (IF package \in DOMAIN prev THEN prev[package] ELSE <<>>)
                 ELSE prev[package]]

\* The set `dependencies` of the second loop for one unit.
Dependencies(build_command) ==
    {remove_version(dep) : dep \in build_command.run_dependencies}
      \cup {remove_version(dep) : dep \in build_command.build_dependencies}
      \cup {remove_version(dep) : dep \in build_command.host_dependencies}
      \cup {remove_version(dep) : dep \in build_command.test_dependencies}

\* A bug DepsOf could have: the unit's own index is not filtered out.
DepsOf_NoSelfFilter(packages, order, own_index) ==
    Flatten([k \in 1..Len(order) |->
                IF order[k] \in DOMAIN packages THEN packages[order[k]] ELSE <<>>])

\* The list `deps` of one unit: `order` is the order in which the for loop
\* walks the set `dependencies`.
DepsOf(packages, order, own_index) ==
    Flatten([k \in 1..Len(order) |->
                IF order[k] \in DOMAIN packages
                THEN FilterNot(packages[order[k]], own_index)
                ELSE <<>>])

\* The orders the second loop may take, one per unit of the first n units.
RECURSIVE WalkOrdersUpTo(_, _)
WalkOrdersUpTo(batch, n) ==
    IF n = 0 THEN {<<>>}
    ELSE {Append(o, x) : o \in WalkOrdersUpTo(batch, n - 1),
                         x \in Orderings(Dependencies(batch[n]))}

WalkOrders(batch) == WalkOrdersUpTo(batch, Len(batch))

add_build_command_dependencies(batch, start_index, orders) ==
    LET packages == PackagesDict(batch, start_index, Len(batch))
    IN  [k \in 1..Len(batch) |->
            [batch[k] EXCEPT !.build_command_dependencies =
                DepsOf(packages, orders[k], start_index + (k - 1))]]

-----------------------------------------------------------------------------
(* find_all_cycles and _detect_cycle *)

RECURSIVE find_all_cycles(_, _, _)
RECURSIVE CyclesThrough(_, _, _, _)

\* The for loop of find_all_cycles from the k-th dependency on.
CyclesThrough(tree, deps, k, current_branch) ==
    IF k > Len(deps) THEN <<>>
    ELSE find_all_cycles(tree, deps[k], current_branch)
           \o CyclesThrough(tree, deps, k + 1, current_branch)

find_all_cycles(tree, current, seen) ==
    LET current_branch == seen \o <<current>>
    IN  IF Len(current_branch) # Cardinality(Range(current_branch))
        THEN <<current_branch>>
        ELSE CyclesThrough(tree, tree[current + 1], 1, current_branch)

\* A bug CollectCycles could have: the search starts at the first unit only.
CollectCycles_FirstStartOnly(tree, start, found, limit) ==
    IF start >= Len(tree) THEN found
    ELSE found \o find_all_cycles(tree, start, <<>>)

\* The for loop of _detect_cycle from `start` on, with its break.
RECURSIVE CollectCycles(_, _, _, _)
CollectCycles(tree, start, found, limit) ==
    IF start >= Len(tree) THEN found
    ELSE LET more == found \o find_all_cycles(tree, start, <<>>)
         IN  IF Len(more) >= limit THEN more
             ELSE CollectCycles(tree, start + 1, more, limit)

extract_build_tree(commands) ==
    [k \in 1..Len(commands) |-> commands[k].build_command_dependencies]

\* The text of the error: one line per listed cycle (the chain of the
\* units at these indices), and whether the truncation suffix is appended.
\* `cycles` and `max_cycles` are the locals of _detect_cycle as it raises.
CycleReport(found, limit) ==
    [lines      |-> SubSeq(found, 1, Min(limit, Len(found))),
     truncated  |-> Len(found) > limit,
     cycles     |-> found,
     max_cycles |-> limit]

NoReport == [lines |-> <<>>, truncated |-> FALSE, cycles |-> <<>>, max_cycles |-> 0]

-----------------------------------------------------------------------------
(* The inputs *)

PythonVersions == {<<"3.8">>, <<"3.8", "3.9">>}

NoDependencies == [run |-> {}, host |-> {}, build |-> {}, test |-> {}]

\* The requirements the rendered recipes of a build tree declare.
TreeRequirements ==
    {NoDependencies,
     [NoDependencies EXCEPT !.run = {<<"a">>}],
     [NoDependencies EXCEPT !.host = {<<"a", ">=1.2">>}, !.test = {<<"b">>}]}

\* The requirements the recipes handed to a lone linker call declare.
LinkRequirements ==
    TreeRequirements \cup
    {[NoDependencies EXCEPT !.build = {<<"b", ">=1.2">>}],
     [NoDependencies EXCEPT !.run = {<<"a">>, <<"a", ">=1.2">>}]}

\* What _create_recipes may return for one recipe of one variant.
RenderedUnits(variant, produced, requirements) ==
    {BuildCommand(p, variant, r.run, r.host, r.build, r.test) :
        p \in produced, r \in requirements}

Batches(units, n) == UNION {[1..k -> units] : k \in 0..n}

\* The units of a build tree: recipes with one output and any of the
\* requirements, and a recipe with two outputs and no requirement.
TreeUnits(variant) ==
    RenderedUnits(variant, {{"a"}, {"b"}}, TreeRequirements)
      \cup RenderedUnits(variant, {{"a", "b"}}, {NoDependencies})

\* What _create_all_recipes may return for one variant: at most `room` units.
VariantRecipes(variant, room) ==
    Batches(TreeUnits(variant), Min(MaxBatch, room))

-----------------------------------------------------------------------------
(* BuildTree *)

NoCall == [called |-> FALSE]

Init ==
    /\ \E python_versions \in PythonVersions :
          possible_variants = make_variants(python_versions, <<"cpu">>, <<"openmpi">>)
    /\ variant_index = 0
    /\ build_commands = <<>>
    /\ pc = "create"
    /\ report = NoReport
    /\ is_seen = <<>>
    /\ stack = <<>>
    /\ yielded = <<>>
    /\ linker = NoCall
    /\ finder = NoCall
    /\ collector = NoCall

\* A bug AddVariant could have: the batch is linked without the offset.
AddVariant_NoOffset ==
    /\ pc = "create"
    /\ variant_index < Len(possible_variants)
    /\ \E variant_recipes \in VariantRecipes(possible_variants[variant_index + 1],
                                              MaxUnits - Len(build_commands)) :
          \E orders \in WalkOrders(variant_recipes) :
             build_commands' = build_commands \o
                 add_build_command_dependencies(variant_recipes, 0, orders)
    /\ variant_index' = variant_index + 1
    /\ UNCHANGED <<possible_variants, pc, report, is_seen, stack, yielded,
                   linker, finder, collector>>

\* Another: the linker is handed every unit collected so far, not the batch.
AddVariant_LinkAll ==
    /\ pc = "create"
    /\ variant_index < Len(possible_variants)
    /\ \E variant_recipes \in VariantRecipes(possible_variants[variant_index + 1],
                                              MaxUnits - Len(build_commands)) :
          \E orders \in WalkOrders(build_commands \o variant_recipes) :
             build_commands' =
                 add_build_command_dependencies(build_commands \o variant_recipes,
                                                0, orders)
    /\ variant_index' = variant_index + 1
    /\ UNCHANGED <<possible_variants, pc, report, is_seen, stack, yielded,
                   linker, finder, collector>>

\* One pass of the loop over the variants in __init__.
AddVariant ==
    /\ pc = "create"
    /\ variant_index < Len(possible_variants)
    /\ \E variant_recipes \in VariantRecipes(possible_variants[variant_index + 1],
                                              MaxUnits - Len(build_commands)) :
          \E orders \in WalkOrders(variant_recipes) :
             build_commands' = build_commands \o
                 add_build_command_dependencies(variant_recipes,
                                                Len(build_commands), orders)
    /\ variant_index' = variant_index + 1
    /\ UNCHANGED <<possible_variants, pc, report, is_seen, stack, yielded,
                   linker, finder, collector>>

\* _detect_cycle, called when the loop over the variants is over.
DetectCycle ==
    /\ pc = "create"
    /\ variant_index = Len(possible_variants)
    /\ \E max_cycles \in 1..MaxMaxCycles :
          LET cycles == CollectCycles(extract_build_tree(build_commands), 0, <<>>,
                                      max_cycles)
          IN  IF cycles # <<>>
              THEN /\ report' = CycleReport(cycles, max_cycles)
                   /\ pc' = "failed"
              ELSE /\ report' = NoReport
                   /\ pc' = "built"
    /\ UNCHANGED <<possible_variants, variant_index, build_commands,
                   is_seen, stack, yielded, linker, finder, collector>>

\* __iter__: the outermost generator over range(len(build_commands)).
Iter ==
    /\ pc = "built"
    /\ is_seen' = [k \in 1..Len(build_commands) |-> FALSE]
    /\ stack' = <<[deps |-> [k \in 1..Len(build_commands) |-> k - 1], i |-> 1]>>
    /\ yielded' = <<>>
    /\ pc' = "iterating"
    /\ UNCHANGED <<possible_variants, variant_index, build_commands, report,
                   linker, finder, collector>>

Top == stack[Len(stack)]

\* _traverse_deps_tree: `if is_seen[dep]: continue`.
TraverseSkip ==
    /\ pc = "iterating"
    /\ Top.i <= Len(Top.deps)
    /\ is_seen[Top.deps[Top.i] + 1]
    /\ stack' = [stack EXCEPT ![Len(stack)].i = @ + 1]
    /\ UNCHANGED <<possible_variants, variant_index, build_commands, pc, report,
                   is_seen, yielded, linker, finder, collector>>

\* A bug TraverseDescend could have: the dependencies of dep are not walked.
TraverseDescend_NoRecursion ==
    /\ pc = "iterating"
    /\ Top.i <= Len(Top.deps)
    /\ ~is_seen[Top.deps[Top.i] + 1]
    /\ stack' = Append(stack, [deps |-> <<>>, i |-> 1])
    /\ UNCHANGED <<possible_variants, variant_index, build_commands, pc, report,
                   is_seen, yielded, linker, finder, collector>>

\* _traverse_deps_tree: the recursive call on the dependencies of dep.
TraverseDescend ==
    /\ pc = "iterating"
    /\ Top.i <= Len(Top.deps)
    /\ ~is_seen[Top.deps[Top.i] + 1]
    /\ stack' = Append(stack,
                       [deps |-> build_commands[Top.deps[Top.i] + 1].build_command_dependencies,
                        i    |-> 1])
    /\ UNCHANGED <<possible_variants, variant_index, build_commands, pc, report,
                   is_seen, yielded, linker, finder, collector>>

\* A bug TraverseReturn could have: the yielded dep is not marked seen.
TraverseReturn_NoMark ==
    /\ pc = "iterating"
    /\ Top.i > Len(Top.deps)
    /\ IF Len(stack) = 1
       THEN /\ stack' = <<>>
            /\ pc' = "done"
            /\ UNCHANGED <<is_seen, yielded>>
       ELSE LET caller == stack[Len(stack) - 1]
                dep    == caller.deps[caller.i]
            IN  /\ yielded' = Append(yielded, dep)
                /\ is_seen' = is_seen
                /\ stack' = [SubSeq(stack, 1, Len(stack) - 1)
                                EXCEPT ![Len(stack) - 1].i = @ + 1]
                /\ pc' = pc
    /\ UNCHANGED <<possible_variants, variant_index, build_commands, report,
                   linker, finder, collector>>

\* _traverse_deps_tree: a generator is exhausted; the one that called it
\* yields its dep and marks it seen. The outermost one ends the iteration.
TraverseReturn ==
    /\ pc = "iterating"
    /\ Top.i > Len(Top.deps)
    /\ IF Len(stack) = 1
       THEN /\ stack' = <<>>
            /\ pc' = "done"
            /\ UNCHANGED <<is_seen, yielded>>
       ELSE LET caller == stack[Len(stack) - 1]
                dep    == caller.deps[caller.i]
            IN  /\ yielded' = Append(yielded, dep)
                /\ is_seen' = [is_seen EXCEPT ![dep + 1] = TRUE]
                /\ stack' = [SubSeq(stack, 1, Len(stack) - 1)
                                EXCEPT ![Len(stack) - 1].i = @ + 1]
                /\ pc' = pc
    /\ UNCHANGED <<possible_variants, variant_index, build_commands, report,
                   linker, finder, collector>>

Traverse == TraverseSkip \/ TraverseDescend \/ TraverseReturn

Next ==
    \/ AddVariant
    \/ DetectCycle
    \/ Iter
    \/ TraverseSkip
    \/ TraverseDescend
    \/ TraverseReturn

Spec == Init /\ [][Next]_vars

\* A consumer that runs its for loop over the BuildTree to the end keeps
\* resuming the generator.
FairSpec == Spec /\ WF_vars(Traverse)

-----------------------------------------------------------------------------
(* _add_build_command_dependencies, called on its own *)

TreeIdle ==
    /\ possible_variants = <<>>
    /\ variant_index = 0
    /\ build_commands = <<>>
    /\ pc = "none"
    /\ report = NoReport
    /\ is_seen = <<>>
    /\ stack = <<>>
    /\ yielded = <<>>

LinkVariant == [python |-> "3.8", build_type |-> "cpu", mpi_type |-> "openmpi"]

LinkUnits == RenderedUnits(LinkVariant, SUBSET Names, LinkRequirements)

LinkInit ==
    /\ TreeIdle
    /\ finder = NoCall
    /\ collector = NoCall
    /\ \E batch \in Batches(LinkUnits, MaxLinkBatch), start_index \in 0..MaxStartIndex :
          linker = [called         |-> FALSE,
                    build_commands |-> batch,
                    start_index    |-> start_index]

Link ==
    /\ ~linker.called
    /\ \E orders \in WalkOrders(linker.build_commands) :
          linker' = [called         |-> TRUE,
                     build_commands |->
                         add_build_command_dependencies(linker.build_commands,
                                                        linker.start_index, orders),
                     start_index    |-> linker.start_index]
    /\ UNCHANGED <<tree_vars, finder, collector>>

LinkSpec == LinkInit /\ [][Link]_vars

-----------------------------------------------------------------------------
(* find_all_cycles, called on its own *)

\* The lists of at most n entries over the nodes 0..(nodes - 1).
NodeLists(nodes, n) == UNION {[1..k -> 0..(nodes - 1)] : k \in 0..n}

FindInit ==
    /\ TreeIdle
    /\ linker = NoCall
    /\ collector = NoCall
    /\ \E nodes \in 1..MaxNodes :
          \E tree \in [1..nodes -> NodeLists(nodes, MaxDegree)], current \in 0..(nodes - 1) :
             finder = [called |-> FALSE, tree |-> tree, current |-> current,
                       result |-> <<>>]

Find ==
    /\ ~finder.called
    /\ finder' = [finder EXCEPT !.called = TRUE,
                                !.result = find_all_cycles(finder.tree, finder.current, <<>>)]
    /\ UNCHANGED <<tree_vars, linker, collector>>

CyclesSpec == FindInit /\ [][Find]_vars

-----------------------------------------------------------------------------
(* _create_all_recipes, called on its own *)

\* A package declaration is a dict: its items, each a key and a value, in
\* the order the environment file gives them.
Declarations ==
    {<< <<"feedstock", <<"libx">> >> >>,
     << <<"feedstock", <<"libx">> >>, <<"recipes", <<"r">> >> >>,
     << <<"recipes", <<"r">> >>, <<"feedstock", <<"libx">> >> >>,
     << <<"feedstock", <<"liby">> >> >>}

\* dict.get(key), with <<>> for None.
Get(package, key) ==
    IF \E k \in 1..Len(package) : package[k][1] = key
    THEN package[CHOOSE k \in 1..Len(package) : package[k][1] = key][2]
    ELSE <<>>

\* Two dicts are equal when they hold the same items.
SameDeclaration(p, q) == Range(p) = Range(q)

\* str(dict): the items' keys and values, in the order of the dict.
str(to_hash) ==
    Flatten([k \in 1..Len(to_hash) |-> <<to_hash[k][1]>> \o to_hash[k][2]])

Texts == {str(package) : package \in Declarations}

\* hash() of Python: some function of the text into the integers of its width.
HashFunctions == [Texts -> 0..MaxHash]

make_hash(to_hash, hash) == hash[str(to_hash)]

\* The recipes the package config of a feedstock's repository lists.
ConfigRecipes(feedstock_value) ==
    IF feedstock_value = <<"libx">> THEN <<"r", "s">> ELSE <<"t">>

\* _create_recipes: one BuildCommand per recipe of the repository that the
\* declaration's recipe list, when it has one, names.
RECURSIVE create_recipes(_, _, _)
create_recipes(repository, recipes, config_recipes) ==
    IF config_recipes = <<>> THEN <<>>
    ELSE LET recipe == Head(config_recipes)
             rest   == create_recipes(repository, recipes, Tail(config_recipes))
         IN  IF recipes # <<>> /\ recipe \notin Range(recipes)
             THEN rest
             ELSE <<[recipe |-> recipe, repository |-> repository]>> \o rest

\* The loop over the packages of one environment descriptor, from the k-th.
RECURSIVE CollectPackages(_, _, _, _)
CollectPackages(packages, k, hash, acc) ==
    IF k > Len(packages) THEN acc
    ELSE LET package == packages[k]
         IN  IF make_hash(package, hash) \in acc.packages_seen
             THEN CollectPackages(packages, k + 1, hash, acc)
             ELSE LET feedstock_value == Get(package, "feedstock")
                      repository      == feedstock_value \o <<"-feedstock">>
                  IN  CollectPackages(packages, k + 1, hash,
                          [packages_seen |-> acc.packages_seen
                                                \cup {make_hash(package, hash)},
                           recipes       |-> acc.recipes \o
                                                create_recipes(repository,
                                                               Get(package, "recipes"),
                                                               ConfigRecipes(feedstock_value)),
                           rendered      |-> Append(acc.rendered, package)])

\* The loop over the environment descriptors, from the e-th. `rendered`
\* records the declarations handed to _create_recipes, in order.
RECURSIVE CollectDescriptors(_, _, _, _)
CollectDescriptors(env_config_data_list, e, hash, acc) ==
    IF e > Len(env_config_data_list) THEN acc
    ELSE CollectDescriptors(env_config_data_list, e + 1, hash,
                            CollectPackages(env_config_data_list[e].packages, 1, hash, acc))

create_all_recipes(env_config_data_list, hash) ==
    CollectDescriptors(env_config_data_list, 1, hash,
                       [packages_seen |-> {}, recipes |-> <<>>, rendered |-> <<>>])

Descriptors ==
    {[packages |-> packages] :
        packages \in UNION {[1..n -> Declarations] : n \in 0..MaxDeclared}}

CollectInit ==
    /\ TreeIdle
    /\ linker = NoCall
    /\ finder = NoCall
    /\ \E env_config_data_list \in UNION {[1..n -> Descriptors] : n \in 1..MaxDescriptors},
          hash \in HashFunctions :
          collector = [called               |-> FALSE,
                       env_config_data_list |-> env_config_data_list,
                       hash                 |-> hash,
                       recipes              |-> <<>>,
                       rendered             |-> <<>>]

Collect ==
    /\ ~collector.called
    /\ LET done == create_all_recipes(collector.env_config_data_list, collector.hash)
       IN  collector' = [collector EXCEPT !.called   = TRUE,
                                          !.recipes  = done.recipes,
                                          !.rendered = done.rendered]
    /\ UNCHANGED <<tree_vars, linker, finder>>

CollectSpec == CollectInit /\ [][Collect]_vars

-----------------------------------------------------------------------------
(* Properties of the build tree *)

Constructed == pc \in {"built", "iterating", "done"}

Indices == 0..(Len(build_commands) - 1)

Unit(g) == build_commands[g + 1]

DependencyIndices(g) == Range(Unit(g).build_command_dependencies)

Position(g) == CHOOSE k \in 1..Len(yielded) : yielded[k] = g

\* The nodes one edge away from a node of S.
Successors(tree, S) == UNION {Range(tree[n + 1]) : n \in S}

RECURSIVE Closure(_, _)
Closure(tree, S) ==
    LET T == S \cup Successors(tree, S)
    IN  IF T = S THEN S ELSE Closure(tree, T)

\* n lies on a directed cycle of the adjacency list.
OnCycle(tree, n) == n \in Closure(tree, Successors(tree, {n}))

HasCycle(tree) == \E n \in 0..(Len(tree) - 1) : OnCycle(tree, n)

\* C1: in what the iteration of a constructed build tree has yielded so far,
\* and so in the whole sequence once it is over, every index in the
\* build_command_dependencies of a yielded unit stands strictly before it.
C1_DependencyFirst ==
    pc \in {"iterating", "done"} =>
        /\ \A k \in 1..Len(yielded) :
              \A d \in DependencyIndices(yielded[k]) :
                 \E j \in 1..(k - 1) : yielded[j] = d
        /\ pc = "done" =>
              \A g \in Indices : \A d \in DependencyIndices(g) :
                 /\ d \in Range(yielded) /\ g \in Range(yielded)
                 /\ Position(d) < Position(g)

\* The iteration is over and had to yield a unit of a higher index before
\* one of a lower index.
C1_Witness ==
    /\ pc = "done"
    /\ \E g \in Indices : \E d \in DependencyIndices(g) : d > g

\* C2: the iteration of a build tree in which no cycle was found ends, and
\* what it has yielded by then is a permutation of 0..N-1.
C2_TerminatesWithPermutation ==
    /\ [](pc = "iterating" => <>(pc = "done"))
    /\ [](pc = "done" =>
            /\ Len(yielded) = Len(build_commands)
            /\ Range(yielded) = Indices)

\* The iteration is over on a build tree with a unit that lists one
\* dependency twice and a unit that two others depend on.
C2_Witness ==
    /\ pc = "done"
    /\ \E g \in Indices :
          Len(Unit(g).build_command_dependencies) > Cardinality(DependencyIndices(g))
    /\ \E d, g, h \in Indices :
          g # h /\ d \in DependencyIndices(g) /\ d \in DependencyIndices(h)

\* C3: once _detect_cycle has run, the construction has failed exactly when
\* the linked graph has a directed cycle, whatever max_cycles >= 1 is.
C3_FailsIffCycle ==
    pc # "create" =>
        ((pc = "failed") <=> HasCycle(extract_build_tree(build_commands)))

\* The construction failed on a cycle that unit 0 is not on.
C3_Witness ==
    /\ pc = "failed"
    /\ Len(build_commands) > 0
    /\ ~OnCycle(extract_build_tree(build_commands), 0)

\* C6, as claimed: where a unit of one variant consumes a name that a unit of
\* another variant produces, the consumer's build_command_dependencies holds
\* that producer's index.
C6_CrossVariantEdge ==
    Constructed =>
        \A g, h \in Indices :
            (/\ Unit(g).variant # Unit(h).variant
             /\ Unit(h).packages \cap Dependencies(Unit(g)) # {})
                => h \in DependencyIndices(g)

\* C6, amended: every index in a unit's build_command_dependencies is that
\* of a unit of the same variant; there is no cross-variant edge.
C6_EdgesWithinVariant ==
    \A g \in Indices : \A d \in DependencyIndices(g) :
        d \in Indices /\ Unit(d).variant = Unit(g).variant

\* A constructed build tree where a unit consumes a name that a unit of
\* another variant produces, and has an edge to a unit of its own variant.
C6_Witness ==
    /\ Constructed
    /\ \E g, h \in Indices :
          /\ Unit(g).variant # Unit(h).variant
          /\ Unit(h).packages \cap Dependencies(Unit(g)) # {}
          /\ DependencyIndices(g) # {}

\* Every index written so far is the position of a unit of the consumer's
\* batch that produces a name the consumer depends on.
IndicesDenoteProducers ==
    \A g \in Indices : \A d \in DependencyIndices(g) :
        /\ d \in Indices
        /\ Unit(d).variant = Unit(g).variant
        /\ Unit(d).packages \cap Dependencies(Unit(g)) # {}

\* Every unit stays where it is, with the dependencies it has.
UnitsKept ==
    /\ Len(build_commands') >= Len(build_commands)
    /\ \A k \in 1..Len(build_commands) : build_commands'[k] = build_commands[k]

\* C8: each batch is linked with the length of build_commands before it is
\* appended, so every index denotes the producer's final position, and
\* a later batch changes no unit appended before.
C8_StableIndices == [](IndicesDenoteProducers) /\ [][UnitsKept]_vars

\* The second variant's batch has been linked behind a first batch that is
\* not empty, and it has a dependency.
C8_Witness ==
    /\ variant_index = 2
    /\ \E g, h \in Indices :
          /\ Unit(g).variant # Unit(h).variant
          /\ h < g
          /\ DependencyIndices(g) # {}

\* The nodes of the cycle a path of find_all_cycles ends in.
CycleNodes(path) ==
    LET first == CHOOSE k \in 1..Len(path) :
                    /\ path[k] = path[Len(path)]
                    /\ \A j \in 1..(k - 1) : path[j] # path[Len(path)]
    IN  {path[k] : k \in first..Len(path)}

\* The cycles of the graph, each as the set of its nodes.
GraphCycles(tree) ==
    UNION {{CycleNodes(c) : c \in Range(find_all_cycles(tree, s, <<>>))} :
              s \in 0..(Len(tree) - 1)}

\* C9: a cycle report lists at most max_cycles cycles, and has the
\* truncation suffix whenever the graph has a cycle the report does not list.
C9_TruncationSuffix ==
    pc = "failed" =>
        /\ Len(report.lines) <= report.max_cycles
        /\ (\E c \in GraphCycles(extract_build_tree(build_commands)) :
               c \notin {CycleNodes(line) : line \in Range(report.lines)})
              => report.truncated

-----------------------------------------------------------------------------
(* Properties of the linker *)

LinkedIndex(k) == linker.start_index + (k - 1)

LinkedDependencies(k) == Range(linker.build_commands[k].build_command_dependencies)

\* The bare names of all the specifiers a unit declares.
ConsumedNames(unit) ==
    {dep[1] : dep \in unit.run_dependencies \cup unit.host_dependencies
                        \cup unit.build_dependencies \cup unit.test_dependencies}

LinkedUnits == 1..Len(linker.build_commands)

\* C4: after the linker has run, with any start_index, no unit's
\* build_command_dependencies holds the unit's own global index.
C4_NoSelfDependency ==
    linker.called =>
        \A k \in LinkedUnits : LinkedIndex(k) \notin LinkedDependencies(k)

\* The linker has run with a start_index above 0 on a batch where a unit
\* consumes a name that it and another unit produce.
C4_Witness ==
    /\ linker.called
    /\ linker.start_index > 0
    /\ \E k, j \in LinkedUnits :
          /\ k # j
          /\ \E n \in ConsumedNames(linker.build_commands[k]) :
                /\ n \in linker.build_commands[k].packages
                /\ n \in linker.build_commands[j].packages

\* C5: after the linker has run, the indices in a unit's
\* build_command_dependencies are exactly the global indices of the other
\* units of the batch that produce a name the unit consumes in its run, host,
\* build or test dependencies, versions stripped.
C5_ExactlyTheProducers ==
    linker.called =>
        \A k \in LinkedUnits :
            LinkedDependencies(k) =
                {LinkedIndex(j) : j \in
                    {j \in LinkedUnits :
                        /\ j # k
                        /\ linker.build_commands[j].packages
                             \cap ConsumedNames(linker.build_commands[k]) # {}}}

\* The linker has run on a batch where a unit consumes, with a version, a
\* name that two other units produce, and a name that no unit produces.
C5_Witness ==
    /\ linker.called
    /\ \E k, i, j \in LinkedUnits :
          /\ k # i /\ k # j /\ i # j
          /\ \E dep \in linker.build_commands[k].host_dependencies
                          \cup linker.build_commands[k].build_dependencies :
                /\ Len(dep) = 2
                /\ dep[1] \in linker.build_commands[i].packages
                /\ dep[1] \in linker.build_commands[j].packages
          /\ \E n \in ConsumedNames(linker.build_commands[k]) :
                \A u \in LinkedUnits : n \notin linker.build_commands[u].packages

-----------------------------------------------------------------------------
(* Properties of find_all_cycles *)

\* C10: every path find_all_cycles(tree, s) returns is a cycle that starts
\* at s: it starts and ends with s, no other node repeats, and each step
\* follows an edge of the tree.
C10_CyclesStartAtCurrent ==
    finder.called =>
        \A p \in Range(finder.result) :
            /\ Len(p) >= 2
            /\ p[1] = finder.current
            /\ p[Len(p)] = finder.current
            /\ \A i, j \in 1..(Len(p) - 1) : i # j => p[i] # p[j]
            /\ \A i \in 1..(Len(p) - 1) : p[i + 1] \in Range(finder.tree[p[i] + 1])

-----------------------------------------------------------------------------
(* Properties of the collector *)

\* The declarations of all the descriptors, in the order they are walked.
Declared == Flatten([e \in 1..Len(collector.env_config_data_list) |->
                        collector.env_config_data_list[e].packages])

\* The declarations of a list that no earlier declaration of it equals.
RECURSIVE FirstOccurrences(_, _)
FirstOccurrences(declared, k) ==
    IF k > Len(declared) THEN <<>>
    ELSE IF \E j \in 1..(k - 1) : SameDeclaration(declared[j], declared[k])
         THEN FirstOccurrences(declared, k + 1)
         ELSE <<declared[k]>> \o FirstOccurrences(declared, k + 1)

\* C7: within one variant's collection, a declaration is handed to
\* _create_recipes at its first occurrence and at no later one, and
\* declarations that differ in a field are each handed to it.
C7_OncePerDeclaration ==
    collector.called => collector.rendered = FirstOccurrences(Declared, 1)

=============================================================================
